---- MODULE Spec2Model ----
(***************************************************************************)
(* CircularQueue.h of EspSoftwareSerial: the lock-free circular queue      *)
(* CircularQueue<T> (one producer, one consumer) and CircularQueueMP<T>    *)
(* (several producers, one consumer; a CAS build and the ESP8266 build).   *)
(*                                                                         *)
(* Every atomic load, store and compare-exchange of the source is one      *)
(* step of the thread that performs it (they are all seq_cst, so a run is  *)
(* an interleaving of these steps).  A load of m_outPos by the consumer    *)
(* itself is folded into the neighbouring step: only the consumer stores   *)
(* m_outPos.  An action is named after the source line of its step.        *)
(*                                                                         *)
(* A whole call, run with no step of another thread inside it, is an       *)
(* operator from the queue's fields to the fields after it and the value   *)
(* returned (Push, Pop, Peek, Flush, Available, AvailableForWrite, PopN).  *)
(*                                                                         *)
(* Spec      : the calls run one at a time, each as one action.            *)
(* SpecConc  : producers and the consumer interleave step by step.         *)
(* SpecObs   : SpecConc with calls of available and availableForWrite.     *)
(* SpecLive  : SpecConc with threads that keep running.                    *)
(***************************************************************************)
EXTENDS Integers, Sequences, FiniteSets

\* ------------------------------------------------------------------ bounds
\* capacities 1..MaxCapacity are constructed
MaxCapacity == 2
\* the calls of Spec push the values 0..MaxVal (0 is the default value of T)
MaxVal == 2
\* SpecConc makes at most MaxPush push calls, tagged 1..MaxPush
MaxPush == 2
\* producer threads of SpecConc
NumProducers == 2

\* const T defaultValue = {}
Default == 0

Producers == 1..NumProducers
Variants == {"SPSC", "MP", "MP8266"}

VARIABLES
    variant,    \* which class and build: CircularQueue, CircularQueueMP, CircularQueueMP under ESP8266
    m_bufSize,  \* capacity + 1
    m_buffer,   \* the slots, 0..m_bufSize-1
    m_inPosT,   \* write cursor
    m_outPos,   \* read cursor
    m_inPosL,   \* CircularQueueMP: reservation cursor
    m_inPosC,   \* CircularQueueMP: completion counter
    prod,       \* each producer's position in push and its locals
    cons,       \* the consumer's position in its call and its locals
    nextTag,    \* SpecConc: the value the next push call passes
    hist,       \* SpecConc: the values accepted in the order of acceptance, the values pop
                \* returned from a non-empty queue, the number flush and pop_n removed,
                \* whether a push has returned false, whether one that did wrote,
                \* whether available or availableForWrite has returned a number
                \* outside 0..capacity
    ser         \* Spec: the abstract FIFO, the last completed call, and the fields of a
                \* CircularQueueMP of the ESP8266 build that receives the same calls

vars == <<variant, m_bufSize, m_buffer, m_inPosT, m_outPos, m_inPosL,
          m_inPosC, prod, cons, nextTag, hist, ser>>

config == <<variant, m_bufSize>>

\* the fields of the queue object
Shared ==
    [buf |-> m_buffer, inT |-> m_inPosT, out |-> m_outPos, inL |-> m_inPosL, inC |-> m_inPosC]

Capacity == m_bufSize - 1

Min(a, b) == IF a < b THEN a ELSE b

\* ---------------------------------------------------- the abstract FIFO
\* Return values are written as sequences of integers: push <<1>> or <<0>>,
\* pop and peek <<value>>, flush <<>>, available and availableForWrite <<n>>,
\* pop_n <<n>> followed by the n values copied out.
AbsRet(op, arg, q) ==
    CASE op = "push" -> IF Len(q) < Capacity THEN <<1>> ELSE <<0>>
      [] op = "pop" -> IF q = <<>> THEN <<Default>> ELSE <<Head(q)>>
      [] op = "peek" -> IF q = <<>> THEN <<Default>> ELSE <<Head(q)>>
      [] op = "flush" -> <<>>
      [] op = "available" -> <<Len(q)>>
      [] op = "availableForWrite" -> <<Capacity - Len(q)>>
      [] op = "pop_n" -> <<Min(arg, Len(q))>> \o SubSeq(q, 1, Min(arg, Len(q)))

AbsNext(op, arg, q) ==
    CASE op = "push" -> IF Len(q) < Capacity THEN Append(q, arg) ELSE q
      [] op = "pop" -> IF q = <<>> THEN q ELSE Tail(q)
      [] op = "flush" -> <<>>
      [] op = "pop_n" -> SubSeq(q, Min(arg, Len(q)) + 1, Len(q))
      [] OTHER -> q

\* ------------------------------------------------------------ helpers
\* (inPos + 1) % m_bufSize
NextPos(inPos) == (inPos + 1) % m_bufSize

\* a faulty count that is not wrapped into 0..m_bufSize-1: C17 rejects it
Avail_NoWrap(a, b) == a - b

\* ssize_t avail = a - b; if (avail < 0) avail += m_bufSize;
Avail(a, b) == IF a - b < 0 THEN a - b + m_bufSize ELSE a - b

\* --------------------------------------------------------- whole calls
\* Each operator runs one call on the fields s with no step of another
\* thread inside it: [s |-> the fields after the call, ret |-> what it returns].

\* a faulty push that tests inPos, not next, against m_outPos (it accepts a
\* value when the queue is full): C5 rejects it
PushSPSC_TestsInPos(s, v) ==
    LET inPos == s.inT
        next == NextPos(inPos)
    IN IF inPos = s.out /\ next # s.out
       THEN [s |-> s, ret |-> <<0>>]
       ELSE [s |-> [s EXCEPT !.inT = next, !.buf[inPos] = v], ret |-> <<1>>]

\* CircularQueue::push
PushSPSC(s, v) ==
    LET inPos == s.inT
        next == NextPos(inPos)
    IN IF next = s.out
       THEN [s |-> s, ret |-> <<0>>]
       ELSE [s |-> [s EXCEPT !.inT = next, !.buf[inPos] = v], ret |-> <<1>>]

\* a faulty push that stores the value before it tests for a full queue: C7
\* rejects it
PushESP8266_StoresFirst(s, v) ==
    LET inPos == s.inT
        next == NextPos(inPos)
    IN IF next = s.out
       THEN [s |-> [s EXCEPT !.buf[inPos] = v], ret |-> <<0>>]
       ELSE [s |-> [s EXCEPT !.inT = next, !.buf[inPos] = v], ret |-> <<1>>]

\* CircularQueueMP::push under ESP8266: the body of CircularQueue::push
\* between xt_rsil(15) and xt_wsr_ps(savedPS)
PushESP8266(s, v) ==
    LET inPos == s.inT
        next == NextPos(inPos)
    IN IF next = s.out
       THEN [s |-> s, ret |-> <<0>>]
       ELSE [s |-> [s EXCEPT !.inT = next, !.buf[inPos] = v], ret |-> <<1>>]

\* CircularQueueMP::push: alone, both compare_exchange_weak loops succeed
\* (a spurious failure repeats the same attempt)
PushMP(s, v) ==
    LET inPos == s.inL
        nextL == NextPos(inPos)
        wrappedC == NextPos(s.inC)
        reserved == [s EXCEPT !.inL = nextL, !.buf[inPos] = v, !.inC = wrappedC]
    IN IF nextL = s.out
       THEN [s |-> s, ret |-> <<0>>]
       ELSE [s |-> IF reserved.inL = wrappedC THEN [reserved EXCEPT !.inT = wrappedC] ELSE reserved,
             ret |-> <<1>>]

Push(s, v) ==
    CASE variant = "SPSC" -> PushSPSC(s, v)
      [] variant = "MP" -> PushMP(s, v)
      [] variant = "MP8266" -> PushESP8266(s, v)

\* CircularQueue::pop
Pop(s) ==
    LET outPos == s.out
    IN IF s.inT = outPos
       THEN [s |-> s, ret |-> <<Default>>]
       ELSE [s |-> [s EXCEPT !.out = NextPos(outPos)], ret |-> <<s.buf[outPos]>>]

\* a faulty peek that advances m_outPos as pop does: C8 rejects it
Peek_Consumes(s) ==
    LET outPos == s.out
    IN IF s.inT = outPos
       THEN [s |-> s, ret |-> <<Default>>]
       ELSE [s |-> [s EXCEPT !.out = NextPos(outPos)], ret |-> <<s.buf[outPos]>>]

\* CircularQueue::peek
Peek(s) ==
    LET outPos == s.out
    IN [s |-> s, ret |-> IF s.inT = outPos THEN <<Default>> ELSE <<s.buf[outPos]>>]

\* CircularQueue::flush
Flush(s) == [s |-> [s EXCEPT !.out = s.inT], ret |-> <<>>]

\* CircularQueue::available
Available(s) == [s |-> s, ret |-> <<Avail(s.inT, s.out)>>]

\* CircularQueue::availableForWrite; CircularQueueMP::availableForWrite (both
\* builds) reads m_inPosL in place of m_inPosT
AvailableForWrite(s) ==
    [s |-> s, ret |-> <<Avail(s.out, (IF variant = "SPSC" THEN s.inT ELSE s.inL) + 1)>>]

\* a faulty pop_n whose second range starts at slot 1, not at slot 0: C6
\* rejects it
PopN_SecondRangeOff(s, k) ==
    LET size == Min(k, Avail(s.inT, s.out))
        outPos == s.out
        n == Min(size, m_bufSize - outPos)
        first == [i \in 1..n |-> s.buf[outPos + i - 1]]
        second == [i \in 1..(size - n) |-> s.buf[i]]
    IN IF size = 0
       THEN [s |-> s, ret |-> <<0>>]
       ELSE [s |-> [s EXCEPT !.out = (outPos + size) % m_bufSize],
             ret |-> <<size>> \o first \o second]

\* CircularQueue::pop_n: the two std::copy_n ranges, then the store of m_outPos
PopN(s, k) ==
    LET size == Min(k, Avail(s.inT, s.out))
        outPos == s.out
        n == Min(size, m_bufSize - outPos)
        first == [i \in 1..n |-> s.buf[outPos + i - 1]]
        second == [i \in 1..(size - n) |-> s.buf[i - 1]]
    IN IF size = 0
       THEN [s |-> s, ret |-> <<0>>]
       ELSE [s |-> [s EXCEPT !.out = (outPos + size) % m_bufSize],
             ret |-> <<size>> \o first \o second]

\* --------------------------------------- Spec: the calls one at a time
SetShared(s) ==
    /\ m_buffer' = s.buf
    /\ m_inPosT' = s.inT
    /\ m_outPos' = s.out
    /\ m_inPosL' = s.inL
    /\ m_inPosC' = s.inC

\* the number of push calls since the queue was last left empty by the
\* consumer (or constructed) with no pop, pop_n or flush since; -1 otherwise
Streak(op, r) ==
    IF op = "push"
    THEN (IF ser.streak < 0 THEN -1 ELSE Min(ser.streak + 1, Capacity + 2))
    ELSE IF op \in {"pop", "pop_n", "flush"}
    THEN (IF r.s.inT = r.s.out /\ (variant = "MP" => r.s.inL = r.s.out) THEN 0 ELSE -1)
    ELSE ser.streak

\* the call op(arg) on the fields s of a CircularQueueMP built under ESP8266:
\* push is the ESP8266 body, every other member function is shared by the builds
CallESP8266(op, arg, s) ==
    CASE op = "push" -> PushESP8266(s, arg)
      [] op = "pop" -> Pop(s)
      [] op = "peek" -> Peek(s)
      [] op = "flush" -> Flush(s)
      [] op = "available" -> Available(s)
      [] op = "availableForWrite" -> AvailableForWrite(s)
      [] op = "pop_n" -> PopN(s, arg)

\* the call op(arg) with result r: the queue takes r.s, the abstract FIFO steps,
\* and beside a CircularQueueMP of the CAS build an instance of the ESP8266
\* build (ser.twin) receives the same call
Call(op, arg, r) ==
    /\ SetShared(r.s)
    /\ LET t == IF variant = "MP" THEN CallESP8266(op, arg, ser.twin) ELSE [s |-> ser.twin, ret |-> <<>>]
       IN ser' = [fifo |-> AbsNext(op, arg, ser.fifo),
                  pre |-> Shared,
                  twin |-> t.s,
                  last |-> [op |-> op, arg |-> arg, ret |-> r.ret, exp |-> AbsRet(op, arg, ser.fifo),
                            ret8266 |-> t.ret],
                  streak |-> Streak(op, r)]
    /\ UNCHANGED <<config, prod, cons, nextTag, hist>>

DoPush == \E v \in 0..MaxVal : Call("push", v, Push(Shared, v))

DoPop == Call("pop", 0, Pop(Shared))

DoPeek == Call("peek", 0, Peek(Shared))

DoFlush == Call("flush", 0, Flush(Shared))

DoAvailable == Call("available", 0, Available(Shared))

DoAvailableForWrite == Call("availableForWrite", 0, AvailableForWrite(Shared))

DoPopN == \E k \in 0..m_bufSize : Call("pop_n", k, PopN(Shared, k))

\* ------------------------------------- SpecConc: the calls step by step
IdleProd ==
    [pc |-> "idle", val |-> 0, inPos |-> 0, next |-> 0, inPosC |-> 0, wrote |-> FALSE]

IdleCons ==
    [pc |-> "idle", op |-> "none", outPos |-> 0, inT |-> 0, size |-> 0, n |-> 0, out |-> <<>>, val |-> 0]

\* the threads that push: one for CircularQueue
Pushers == IF variant = "SPSC" THEN {1} ELSE Producers

\* a push call of producer p starts: it passes the next tag
StartPush(p) ==
    /\ p \in Pushers
    /\ prod[p].pc = "idle"
    /\ nextTag <= MaxPush
    /\ nextTag' = nextTag + 1

\* a step of producer p: its new locals, and whether this call has changed the queue
ProdStep(p, rec) ==
    prod' = [prod EXCEPT ![p] = [rec EXCEPT !.wrote = prod[p].wrote \/ Shared' # Shared]]

\* push returns true: the locals die
ReturnTrue(p) == prod' = [prod EXCEPT ![p] = IdleProd]

\* push returns false: the locals die, and the history keeps whether a step of
\* this call has changed the queue
ReturnFalse(p) ==
    /\ prod' = [prod EXCEPT ![p] = IdleProd]
    /\ hist' = [hist EXCEPT !.rejected = TRUE,
                            !.rejectedWrote = @ \/ prod[p].wrote \/ Shared' # Shared]

\* the push of value v is accepted: it will return true
Accept(v) == hist' = [hist EXCEPT !.accepted = Append(@, v)]

\* ------------------------------------------------- CircularQueue::push
\* auto inPos = m_inPosT.load(); int next = (inPos + 1) % m_bufSize;
SPush69(p) ==
    /\ variant = "SPSC"
    /\ StartPush(p)
    /\ prod' = [prod EXCEPT ![p] = [IdleProd EXCEPT !.pc = "p71", !.val = nextTag,
                                       !.inPos = m_inPosT, !.next = NextPos(m_inPosT)]]
    /\ UNCHANGED <<config, m_buffer, m_inPosT, m_outPos, m_inPosL, m_inPosC, cons, hist, ser>>

\* if (next == m_outPos.load()) return false;
SPush71(p) ==
    /\ prod[p].pc = "p71"
    /\ UNCHANGED <<config, m_buffer, m_inPosT, m_outPos, m_inPosL, m_inPosC, cons, nextTag, ser>>
    /\ IF prod[p].next = m_outPos
       THEN ReturnFalse(p)
       ELSE /\ ProdStep(p, [prod[p] EXCEPT !.pc = "p74"])
            /\ Accept(prod[p].val)

\* m_inPosT.store(next);
SPush74(p) ==
    /\ prod[p].pc = "p74"
    /\ m_inPosT' = prod[p].next
    /\ UNCHANGED <<config, m_buffer, m_outPos, m_inPosL, m_inPosC, cons, nextTag, hist, ser>>
    /\ ProdStep(p, [prod[p] EXCEPT !.pc = "p76"])

\* m_buffer[inPos].store(val); return true;
SPush76(p) ==
    /\ prod[p].pc = "p76"
    /\ m_buffer' = [m_buffer EXCEPT ![prod[p].inPos] = prod[p].val]
    /\ UNCHANGED <<config, m_inPosT, m_outPos, m_inPosL, m_inPosC, cons, nextTag, hist, ser>>
    /\ ReturnTrue(p)

\* ------------------------------------- CircularQueueMP::push (ESP8266)
\* xt_rsil(15) ... xt_wsr_ps(savedPS): the body runs with interrupts disabled
\* on a single core, so no other step falls inside it
MPushESP8266(p) ==
    /\ variant = "MP8266"
    /\ StartPush(p)
    /\ LET r == PushESP8266(Shared, nextTag)
       IN /\ SetShared(r.s)
          /\ IF r.ret = <<1>>
             THEN Accept(nextTag) /\ ReturnTrue(p)
             ELSE ReturnFalse(p)
    /\ UNCHANGED <<config, cons, ser>>

\* ----------------------------------------------- CircularQueueMP::push
\* auto inPos = m_inPosL.load();
MPush161(p) ==
    /\ variant = "MP"
    /\ StartPush(p)
    /\ prod' = [prod EXCEPT ![p] = [IdleProd EXCEPT !.pc = "m164", !.val = nextTag, !.inPos = m_inPosL]]
    /\ UNCHANGED <<config, m_buffer, m_inPosT, m_outPos, m_inPosL, m_inPosC, cons, hist, ser>>

\* nextL = (inPos + 1) % m_bufSize; if (nextL == m_outPos.load()) return false;
MPush164(p) ==
    /\ prod[p].pc = "m164"
    /\ UNCHANGED <<config, m_buffer, m_inPosT, m_outPos, m_inPosL, m_inPosC, cons, nextTag, ser>>
    /\ IF NextPos(prod[p].inPos) = m_outPos
       THEN ReturnFalse(p)
       ELSE /\ ProdStep(p, [prod[p] EXCEPT !.pc = "m165", !.next = NextPos(prod[p].inPos)])
            /\ UNCHANGED hist

\* while (!m_inPosL.compare_exchange_weak(inPos, nextL)): the exchange succeeds
\* and reserves slot inPos, or it fails (m_inPosL differs, or spuriously) and
\* loads m_inPosL into inPos
MPush165Succeeds(p) ==
    /\ prod[p].pc = "m165"
    /\ UNCHANGED <<config, m_buffer, m_inPosT, m_outPos, m_inPosC, cons, nextTag, ser>>
    /\ m_inPosL = prod[p].inPos
    /\ m_inPosL' = prod[p].next
    /\ Accept(prod[p].val)
    /\ ProdStep(p, [prod[p] EXCEPT !.pc = "m167"])

MPush165Fails(p) ==
    /\ prod[p].pc = "m165"
    /\ UNCHANGED <<config, m_buffer, m_inPosT, m_outPos, m_inPosC, cons, nextTag, ser>>
    /\ UNCHANGED <<m_inPosL, hist>>
    /\ ProdStep(p, [prod[p] EXCEPT !.pc = "m164", !.inPos = m_inPosL, !.next = 0])

MPush165(p) == MPush165Succeeds(p) \/ MPush165Fails(p)

\* m_buffer[inPos].store(val);
MPush167(p) ==
    /\ prod[p].pc = "m167"
    /\ m_buffer' = [m_buffer EXCEPT ![prod[p].inPos] = prod[p].val]
    /\ UNCHANGED <<config, m_inPosT, m_outPos, m_inPosL, m_inPosC, cons, nextTag, hist, ser>>
    /\ ProdStep(p, [prod[p] EXCEPT !.pc = "m170"])

\* a faulty completion loop whose failed exchange does not reload inPosC: C12
\* rejects it
MPush173_NoReload(p) ==
    /\ prod[p].pc = "m173"
    /\ UNCHANGED <<config, m_buffer, m_inPosT, m_outPos, m_inPosL, cons, nextTag, hist, ser>>
    /\ IF m_inPosC = prod[p].inPosC
       THEN /\ m_inPosC' = NextPos(prod[p].inPosC)
            /\ ProdStep(p, [prod[p] EXCEPT !.pc = "m175", !.inPosC = NextPos(prod[p].inPosC)])
       ELSE UNCHANGED <<m_inPosC, prod>>

\* auto inPosC = m_inPosC.load();
MPush170(p) ==
    /\ prod[p].pc = "m170"
    /\ UNCHANGED <<config, m_buffer, m_inPosT, m_outPos, m_inPosL, m_inPosC, cons, nextTag, hist, ser>>
    /\ ProdStep(p, [prod[p] EXCEPT !.pc = "m173", !.inPosC = m_inPosC])

\* wrappedC = (inPosC + 1) % m_bufSize;
\* while (!m_inPosC.compare_exchange_weak(inPosC, wrappedC)): a failure loads
\* m_inPosC into inPosC and repeats (a spurious failure changes nothing)
MPush173(p) ==
    /\ prod[p].pc = "m173"
    /\ UNCHANGED <<config, m_buffer, m_inPosT, m_outPos, m_inPosL, cons, nextTag, hist, ser>>
    /\ IF m_inPosC = prod[p].inPosC
       THEN /\ m_inPosC' = NextPos(prod[p].inPosC)
            /\ ProdStep(p, [prod[p] EXCEPT !.pc = "m175", !.inPosC = NextPos(prod[p].inPosC)])
       ELSE /\ UNCHANGED m_inPosC
            /\ ProdStep(p, [prod[p] EXCEPT !.inPosC = m_inPosC])

\* if (m_inPosL.compare_exchange_strong(wrappedC, wrappedC)) ... return true;
\* (from here on the local inPosC of the model holds wrappedC)
MPush175(p) ==
    /\ prod[p].pc = "m175"
    /\ UNCHANGED <<config, m_buffer, m_inPosT, m_outPos, m_inPosL, m_inPosC, cons, nextTag, hist, ser>>
    /\ IF m_inPosL = prod[p].inPosC
       THEN ProdStep(p, [prod[p] EXCEPT !.pc = "m176"])
       ELSE ReturnTrue(p)

\* m_inPosT.store(wrappedC); return true;
MPush176(p) ==
    /\ prod[p].pc = "m176"
    /\ m_inPosT' = prod[p].inPosC
    /\ UNCHANGED <<config, m_buffer, m_outPos, m_inPosL, m_inPosC, cons, nextTag, hist, ser>>
    /\ ReturnTrue(p)

\* -------------------------------------------------- CircularQueue::pop
\* auto outPos = m_outPos.load();
Pop83 ==
    /\ cons.pc = "idle"
    /\ cons' = [IdleCons EXCEPT !.pc = "c84", !.op = "pop", !.outPos = m_outPos]
    /\ UNCHANGED <<config, m_buffer, m_inPosT, m_outPos, m_inPosL, m_inPosC, prod, nextTag, hist, ser>>

\* if (m_inPosT.load() == outPos) return defaultValue;
Pop84 ==
    /\ cons.pc = "c84"
    /\ UNCHANGED <<config, m_buffer, m_inPosT, m_outPos, m_inPosL, m_inPosC, prod, nextTag, hist, ser>>
    /\ IF m_inPosT = cons.outPos
       THEN cons' = IdleCons
       ELSE cons' = [cons EXCEPT !.pc = "c85"]

\* auto val = m_buffer[outPos].load();
Pop85 ==
    /\ cons.pc = "c85"
    /\ cons' = [cons EXCEPT !.pc = "c89", !.val = m_buffer[cons.outPos]]
    /\ UNCHANGED <<config, m_buffer, m_inPosT, m_outPos, m_inPosL, m_inPosC, prod, nextTag, hist, ser>>

\* m_outPos.exchange((outPos + 1) % m_bufSize); return val; (the locals die)
Pop89 ==
    /\ cons.pc = "c89"
    /\ m_outPos' = NextPos(cons.outPos)
    /\ cons' = IdleCons
    /\ hist' = [hist EXCEPT !.popped = Append(@, cons.val)]
    /\ UNCHANGED <<config, m_buffer, m_inPosT, m_inPosL, m_inPosC, prod, nextTag, ser>>

\* ------------------------------------------------- CircularQueue::peek
\* auto outPos = m_outPos.load();
Peek63 ==
    /\ cons.pc = "idle"
    /\ cons' = [IdleCons EXCEPT !.pc = "k64", !.op = "peek", !.outPos = m_outPos]
    /\ UNCHANGED <<config, m_buffer, m_inPosT, m_outPos, m_inPosL, m_inPosC, prod, nextTag, hist, ser>>

\* return (m_inPosT.load() == outPos) ? defaultValue : ...
Peek64 ==
    /\ cons.pc = "k64"
    /\ UNCHANGED <<config, m_buffer, m_inPosT, m_outPos, m_inPosL, m_inPosC, prod, nextTag, hist, ser>>
    /\ IF m_inPosT = cons.outPos
       THEN cons' = IdleCons
       ELSE cons' = [cons EXCEPT !.pc = "k64load"]

\* ... : m_buffer[outPos].load();
Peek64Load ==
    /\ cons.pc = "k64load"
    /\ cons' = IdleCons
    /\ UNCHANGED <<config, m_buffer, m_inPosT, m_outPos, m_inPosL, m_inPosC, prod, nextTag, hist, ser>>

\* ------------------------------------------------ CircularQueue::flush
\* m_inPosT.load()
Flush44Load ==
    /\ cons.pc = "idle"
    /\ cons' = [IdleCons EXCEPT !.pc = "f44", !.op = "flush", !.inT = m_inPosT]
    /\ UNCHANGED <<config, m_buffer, m_inPosT, m_outPos, m_inPosL, m_inPosC, prod, nextTag, hist, ser>>

\* m_outPos.store(...): the values between the two cursors are discarded
Flush44Store ==
    /\ cons.pc = "f44"
    /\ m_outPos' = cons.inT
    /\ cons' = IdleCons
    /\ hist' = [hist EXCEPT !.bulk = @ + Avail(cons.inT, m_outPos)]
    /\ UNCHANGED <<config, m_buffer, m_inPosT, m_inPosL, m_inPosC, prod, nextTag, ser>>

\* ------------------------------------------------ CircularQueue::pop_n
\* size_t avail = size = min(size, available()); if (!avail) return 0;
\* auto outPos = m_outPos.load();
\* size_t n = min(avail, static_cast<size_t>(m_bufSize - outPos));
PopN95(k) ==
    /\ cons.pc = "idle"
    /\ UNCHANGED <<config, m_buffer, m_inPosT, m_outPos, m_inPosL, m_inPosC, prod, nextTag, hist, ser>>
    /\ LET size == Min(k, Avail(m_inPosT, m_outPos))
       IN IF size = 0
          THEN cons' = IdleCons
          ELSE cons' = [IdleCons EXCEPT !.pc = "n99", !.op = "pop_n", !.size = size,
                                        !.outPos = m_outPos, !.n = Min(size, m_bufSize - m_outPos)]

\* a faulty pop_n that advances m_outPos with every slot it copies: C18
\* rejects it
PopN99_AdvancesPerSlot ==
    /\ cons.pc = "n99"
    /\ Len(cons.out) < cons.n
    /\ cons' = [cons EXCEPT !.out = Append(@, m_buffer[cons.outPos + Len(cons.out)])]
    /\ m_outPos' = NextPos(m_outPos)
    /\ UNCHANGED <<config, m_buffer, m_inPosT, m_inPosL, m_inPosC, prod, nextTag, hist, ser>>

\* buffer = std::copy_n(m_buffer.get() + outPos, n, buffer): one slot per step
PopN99 ==
    /\ cons.pc = "n99"
    /\ Len(cons.out) < cons.n
    /\ cons' = [cons EXCEPT !.out = Append(@, m_buffer[cons.outPos + Len(cons.out)])]
    /\ UNCHANGED <<config, m_buffer, m_inPosT, m_outPos, m_inPosL, m_inPosC, prod, nextTag, hist, ser>>

\* avail -= n; if (0 < avail) buffer = std::copy_n(m_buffer.get(), avail, buffer);
PopN102 ==
    /\ cons.pc = "n99"
    /\ Len(cons.out) >= cons.n
    /\ Len(cons.out) < cons.size
    /\ cons' = [cons EXCEPT !.out = Append(@, m_buffer[Len(cons.out) - cons.n])]
    /\ UNCHANGED <<config, m_buffer, m_inPosT, m_outPos, m_inPosL, m_inPosC, prod, nextTag, hist, ser>>

\* m_outPos.exchange((outPos + size) % m_bufSize); return size;
PopN107 ==
    /\ cons.pc = "n99"
    /\ Len(cons.out) = cons.size
    /\ m_outPos' = (cons.outPos + cons.size) % m_bufSize
    /\ cons' = IdleCons
    /\ hist' = [hist EXCEPT !.bulk = @ + cons.size]
    /\ UNCHANGED <<config, m_buffer, m_inPosT, m_inPosL, m_inPosC, prod, nextTag, ser>>

\* -------------------------------------------- CircularQueue::available
\* a call returns n: the history keeps whether n is outside 0..Capacity
Returned(n) == hist' = [hist EXCEPT !.outOfRange = @ \/ n \notin 0..Capacity]

\* m_inPosT.load() (the consumer calls available)
Available49 ==
    /\ cons.pc = "idle"
    /\ cons' = [IdleCons EXCEPT !.pc = "a49", !.op = "available", !.inT = m_inPosT]
    /\ UNCHANGED <<config, m_buffer, m_inPosT, m_outPos, m_inPosL, m_inPosC, prod, nextTag, hist, ser>>

\* ... - m_outPos.load(); if (avail < 0) avail += m_bufSize; return avail;
Available51 ==
    /\ cons.pc = "a49"
    /\ cons' = IdleCons
    /\ Returned(Avail(cons.inT, m_outPos))
    /\ UNCHANGED <<config, m_buffer, m_inPosT, m_outPos, m_inPosL, m_inPosC, prod, nextTag, ser>>

\* ------------------------------------ availableForWrite (both classes)
\* the cursor availableForWrite subtracts: m_inPosT in CircularQueue, m_inPosL
\* in CircularQueueMP
InCursor == IF variant = "SPSC" THEN m_inPosT ELSE m_inPosL

\* m_outPos.load() - m_inPosT.load() - 1: a producer calls availableForWrite;
\* the two loads are unsequenced, so either comes first (the local inPos of
\* the model holds the value loaded first).  The call writes nothing, so
\* calls of several producers at a time show nothing that the calls of one do
\* not: producer 1 is the caller.
AvailableForWrite56(p) ==
    /\ p = 1
    /\ prod[p].pc = "idle"
    /\ \/ prod' = [prod EXCEPT ![p] = [IdleProd EXCEPT !.pc = "w56in", !.inPos = m_outPos]]
       \/ prod' = [prod EXCEPT ![p] = [IdleProd EXCEPT !.pc = "w56out", !.inPos = InCursor]]
    /\ UNCHANGED <<config, m_buffer, m_inPosT, m_outPos, m_inPosL, m_inPosC, cons, nextTag, hist, ser>>

\* the other load; if (avail < 0) avail += m_bufSize; return avail;
AvailableForWrite58(p) ==
    /\ prod[p].pc \in {"w56in", "w56out"}
    /\ prod' = [prod EXCEPT ![p] = IdleProd]
    /\ IF prod[p].pc = "w56in"
       THEN Returned(Avail(prod[p].inPos, InCursor + 1))
       ELSE Returned(Avail(m_outPos, prod[p].inPos + 1))
    /\ UNCHANGED <<config, m_buffer, m_inPosT, m_outPos, m_inPosL, m_inPosC, cons, nextTag, ser>>

\* ------------------------------------------------------ specifications
\* CircularQueue(size_t capacity), CircularQueueMP(size_t capacity)
Init ==
    /\ variant \in Variants
    /\ m_bufSize \in {c + 1 : c \in 1..MaxCapacity}
    /\ m_buffer = [i \in 0..(m_bufSize - 1) |-> Default]
    /\ m_inPosT = 0
    /\ m_outPos = 0
    /\ m_inPosL = 0
    /\ m_inPosC = 0
    /\ prod = [p \in Producers |-> IdleProd]
    /\ cons = IdleCons
    /\ nextTag = 1
    /\ hist = [accepted |-> <<>>, popped |-> <<>>, bulk |-> 0, rejected |-> FALSE, rejectedWrote |-> FALSE,
               outOfRange |-> FALSE]
    /\ ser = [fifo |-> <<>>,
              pre |-> Shared,
              twin |-> Shared,
              last |-> [op |-> "none", arg |-> 0, ret |-> <<>>, exp |-> <<>>, ret8266 |-> <<>>],
              streak |-> 0]

Next ==
    \/ DoPush
    \/ DoPop
    \/ DoPeek
    \/ DoFlush
    \/ DoAvailable
    \/ DoAvailableForWrite
    \/ DoPopN

Spec == Init /\ [][Next]_vars

NextConc ==
    \/ \E p \in Producers : SPush69(p)
    \/ \E p \in Producers : SPush71(p)
    \/ \E p \in Producers : SPush74(p)
    \/ \E p \in Producers : SPush76(p)
    \/ \E p \in Producers : MPushESP8266(p)
    \/ \E p \in Producers : MPush161(p)
    \/ \E p \in Producers : MPush164(p)
    \/ \E p \in Producers : MPush165(p)
    \/ \E p \in Producers : MPush167(p)
    \/ \E p \in Producers : MPush170(p)
    \/ \E p \in Producers : MPush173(p)
    \/ \E p \in Producers : MPush175(p)
    \/ \E p \in Producers : MPush176(p)
    \/ Pop83
    \/ Pop84
    \/ Pop85
    \/ Pop89
    \/ Peek63
    \/ Peek64
    \/ Peek64Load
    \/ Flush44Load
    \/ Flush44Store
    \/ \E k \in 1..m_bufSize : PopN95(k)
    \/ PopN99
    \/ PopN102
    \/ PopN107

SpecConc == Init /\ [][NextConc]_vars

\* the steps of SpecConc, and calls of available and availableForWrite
NextObs ==
    \/ NextConc
    \/ Available49
    \/ Available51
    \/ \E p \in Producers : AvailableForWrite56(p)
    \/ \E p \in Producers : AvailableForWrite58(p)

SpecObs == Init /\ [][NextObs]_vars

\* the steps of producer p inside a call of push it has started
ProdSteps(p) ==
    \/ SPush71(p) \/ SPush74(p) \/ SPush76(p)
    \/ MPush164(p) \/ MPush165(p) \/ MPush167(p) \/ MPush170(p)
    \/ MPush173(p) \/ MPush175(p) \/ MPush176(p)

\* the steps of the consumer inside a call it has started
ConsSteps ==
    \/ Pop84 \/ Pop85 \/ Pop89
    \/ Peek64 \/ Peek64Load
    \/ Flush44Store
    \/ PopN99 \/ PopN102 \/ PopN107

\* SpecConc where producer 1 and the consumer keep running inside their calls
\* and a compare_exchange_weak of producer 1 that keeps meeting the expected
\* value does not fail for ever; the other producers may stop anywhere
SpecLive ==
    /\ Init
    /\ [][NextConc]_vars
    /\ WF_vars(ProdSteps(1))
    /\ SF_vars(MPush165Succeeds(1))
    /\ WF_vars(ConsSteps)

\* ------------------------------------------------------------- claims
AllIdle == cons.pc = "idle" /\ \A p \in Producers : prod[p].pc = "idle"

\* how many times v occurs in the sequence q
Count(q, v) == Cardinality({i \in 1..Len(q) : q[i] = v})

\* the place of v in the sequence q (0: none)
IndexOf(q, v) == IF \E i \in 1..Len(q) : q[i] = v THEN CHOOSE i \in 1..Len(q) : q[i] = v ELSE 0

\* C1: CAS build of CircularQueueMP, producers and consumer interleaved: when
\* every push call has returned, the consumer has only popped (no flush, no
\* pop_n) and available() is 0, every value occurs among the values popped exactly as
\* often as among the values whose push returned true.
C1_NoLossNoDuplication ==
    (variant = "MP" /\ AllIdle /\ hist.bulk = 0 /\ Available(Shared).ret = <<0>>)
        => \A v \in 0..MaxPush : Count(hist.popped, v) = Count(hist.accepted, v)

\* C2: CAS build of CircularQueueMP, the consumer calling pop and peek only:
\* pop never returns the value of a later reservation before the value of an
\* earlier one.
C2_ReservationOrder ==
    (variant = "MP" /\ hist.bulk = 0) =>
        \A i \in 1..Len(hist.popped) : \A j \in 1..Len(hist.popped) :
            (i < j /\ IndexOf(hist.accepted, hist.popped[i]) > 0 /\ IndexOf(hist.accepted, hist.popped[j]) > 0)
                => IndexOf(hist.accepted, hist.popped[i]) <= IndexOf(hist.accepted, hist.popped[j])

\* C3: CircularQueue, one producer and one consumer interleaved, the consumer
\* calling pop and peek only: the
\* k-th value popped from a non-empty queue is the value of the k-th accepted push.
C3_StrictPushOrder ==
    (variant = "SPSC" /\ hist.bulk = 0)
        => /\ Len(hist.popped) <= Len(hist.accepted)
           /\ \A k \in 1..Len(hist.popped) : hist.popped[k] = hist.accepted[k]

\* C7: a push that returns false has changed no field of the queue in any of
\* its steps, in CircularQueue and in both builds of CircularQueueMP, also
\* when other producers push at the same time.
C7_FailedPushWritesNothing == ~hist.rejectedWrote

\* a push of the CAS build has returned false while another producer is inside push
C7_Witness ==
    /\ variant = "MP"
    /\ hist.rejected
    /\ \E q \in Producers : prod[q].pc \in {"m167", "m170", "m173", "m175", "m176"}

\* C10: CAS build of CircularQueueMP, every reachable state: availableForWrite()
\* is the capacity minus the number of accepted pushes whose values have been
\* neither popped nor removed by flush or pop_n.
C10_AvailableForWriteCountsReserved ==
    variant = "MP" =>
        AvailableForWrite(Shared).ret
            = <<Capacity - (Len(hist.accepted) - Len(hist.popped) - hist.bulk)>>

\* the fields of a freshly constructed queue
Fresh ==
    [buf |-> [i \in 0..(m_bufSize - 1) |-> Default], inT |-> 0, out |-> 0, inL |-> 0, inC |-> 0]

\* starting from empty with no pops, the first Capacity pushes return true and
\* the next one false
C4_PushCount ==
    (ser.last.op = "push" /\ ser.streak >= 1)
        => ((ser.last.ret = <<1>>) <=> (ser.streak <= Capacity))

\* starting from empty with no pops, availableForWrite() is the capacity
\* minus the number of accepted pushes
C4_AvailableForWrite ==
    ser.streak >= 0 =>
        /\ AvailableForWrite(Shared).ret = <<Capacity - Min(ser.streak, Capacity)>>
        /\ ser.last.op = "availableForWrite" => ser.last.ret = <<Capacity - Min(ser.streak, Capacity)>>

\* C4: starting from empty with no pops, exactly Capacity consecutive pushes
\* return true and the next returns false; availableForWrite() is Capacity at
\* first and one less after each accepted push, 0 when push starts failing.
C4_CapacityCorrectness == C4_PushCount /\ C4_AvailableForWrite

\* C4 holds of CircularQueue and of the CAS build of CircularQueueMP
C4_ExceptESP8266 == variant # "MP8266" => C4_CapacityCorrectness

\* C5: CircularQueue, calls one at a time: every call returns what the
\* abstract FIFO of capacity Capacity returns.
C5_RefinesFifo == variant = "SPSC" => ser.last.ret = ser.last.exp

\* a pop has returned a pushed value from a slot behind the write cursor's
\* wrap-around, after the read cursor wrapped as well
C5_Witness ==
    /\ variant = "SPSC"
    /\ ser.last.op = "pop" /\ ser.last.ret # <<Default>>
    /\ ser.pre.inT < ser.pre.out
    /\ Len(ser.fifo) >= 1

\* n calls of pop from the fields s: the fields after them and the values returned
RECURSIVE Pops(_, _)
Pops(s, n) ==
    IF n = 0
    THEN [s |-> s, vals |-> <<>>]
    ELSE LET r == Pop(s)
             rest == Pops(r.s, n - 1)
         IN [s |-> rest.s, vals |-> r.ret \o rest.vals]

\* C6: pop_n(buf, k) returns n = min(k, available()), copies out the values
\* n calls of pop would return, in their order, and leaves the queue as
\* those n calls would; with n = 0 it returns 0 and changes nothing.
C6_PopNEqualsPops ==
    ser.last.op = "pop_n" =>
        LET n == Min(ser.last.arg, Available(ser.pre).ret[1])
            seq == Pops(ser.pre, n)
        IN /\ ser.last.ret = <<n>> \o seq.vals
           /\ Shared = seq.s
           /\ n = 0 => (Shared = ser.pre /\ ser.last.ret = <<0>>)

\* a pop_n has copied a range that wraps past the end of the storage
C6_Witness ==
    /\ ser.last.op = "pop_n"
    /\ ser.last.ret[1] >= 2
    /\ ser.pre.out + ser.last.ret[1] > m_bufSize

\* C8: a fresh queue has available() 0 and availableForWrite() Capacity; with
\* readCursor = writeCursor pop and peek return the default value and change
\* nothing; on a non-empty queue peek changes nothing and returns what the
\* next pop returns.
C8_EmptySemantics ==
    /\ (ser.last.op = "available" /\ ser.pre = Fresh) => ser.last.ret = <<0>>
    /\ (ser.last.op = "availableForWrite" /\ ser.pre = Fresh) => ser.last.ret = <<Capacity>>
    /\ (ser.last.op \in {"pop", "peek"} /\ ser.pre.out = ser.pre.inT)
          => (ser.last.ret = <<Default>> /\ Shared = ser.pre)
    /\ (ser.last.op = "peek" /\ ser.pre.out # ser.pre.inT)
          => (Shared = ser.pre /\ ser.last.ret = Pop(Shared).ret)

\* a peek on a non-empty queue whose head slot holds a pushed value
C8_Witness ==
    /\ ser.last.op = "peek"
    /\ ser.pre.out # ser.pre.inT
    /\ ser.last.ret # <<Default>>
    /\ ser.pre.out # 0

\* C9: after flush, available() is 0, availableForWrite() is Capacity, the
\* next pop and peek return the default value, flush has changed m_outPos
\* only, and a value pushed next is the next value popped.
C9_FlushDiscards ==
    ser.last.op = "flush" =>
        /\ Available(Shared).ret = <<0>>
        /\ AvailableForWrite(Shared).ret = <<Capacity>>
        /\ Pop(Shared).ret = <<Default>>
        /\ Peek(Shared).ret = <<Default>>
        /\ [Shared EXCEPT !.out = ser.pre.out] = ser.pre
        /\ \A v \in 0..MaxVal :
              /\ Push(Shared, v).ret = <<1>>
              /\ Pop(Push(Shared, v).s).ret = <<v>>

\* C9 holds of CircularQueue and of the CAS build of CircularQueueMP
C9_ExceptESP8266 == variant # "MP8266" => C9_FlushDiscards
\* C11: calls one at a time on a CircularQueueMP of the CAS build and on one of
\* the ESP8266 build, same capacity, same calls: every call returns the same
\* value on both.
C11_BuildsEquivalent == variant = "MP" => ser.last.ret = ser.last.ret8266

\* the two builds return the same from every call but availableForWrite
C11_ExceptAvailableForWrite ==
    (variant = "MP" /\ ser.last.op # "availableForWrite") => ser.last.ret = ser.last.ret8266
\* the place of a step in the code of its call
Rank(pc) ==
    CASE pc = "idle" -> 0
      [] pc \in {"p71", "m164", "c84", "k64", "f44", "n99", "a49", "w56in", "w56out"} -> 1
      [] pc \in {"p74", "m165", "c85", "k64load"} -> 2
      [] pc \in {"p76", "m167", "c89"} -> 3
      [] pc = "m170" -> 4
      [] pc = "m173" -> 5
      [] pc = "m175" -> 6
      [] pc = "m176" -> 7

\* every call of producer 1 and every call of the consumer returns, wherever
\* the other producers stop
C12_CallsReturn ==
    /\ (prod[1].pc # "idle") ~> (prod[1].pc = "idle")
    /\ (cons.pc # "idle") ~> (cons.pc = "idle")

\* a step of a call returns, or moves forward in the code, or is a repeat of
\* one of the two compare_exchange_weak loops of CircularQueueMP::push (or
\* copies the next slot inside std::copy_n)
C12_OnlyCasLoopsRepeat ==
    /\ \A p \in Producers :
          prod'[p] # prod[p] =>
              \/ prod'[p].pc = "idle"
              \/ Rank(prod'[p].pc) > Rank(prod[p].pc)
              \/ prod[p].pc \in {"m165", "m173"}
    /\ cons' # cons =>
          \/ cons'.pc = "idle"
          \/ Rank(cons'.pc) > Rank(cons.pc)
          \/ (cons.pc = "n99" /\ Len(cons'.out) > Len(cons.out))

\* the loop on m_inPosC repeats only when m_inPosC differs from the value the
\* producer expects: another producer's exchange succeeded in between
C12_CompletionRepeatsAfterInterference ==
    \A p \in Producers :
        (prod[p].pc = "m173" /\ prod'[p].pc = "m173" /\ prod'[p] # prod[p])
            => m_inPosC # prod[p].inPosC

\* the loop on m_inPosL repeats only when m_inPosL differs from the value the
\* producer expects
C12_ReservationRepeatsAfterInterference ==
    \A p \in Producers :
        (prod[p].pc = "m165" /\ prod'[p].pc = "m164") => m_inPosL # prod[p].inPos

\* C12 as stated: every call returns after finitely many of its own steps, a
\* stalled producer blocks nobody, the only loops are the two CAS loops, and
\* each of them repeats only when another producer's CAS on the same cell
\* succeeded in between.
C12_NoOperationBlocks_AsStated ==
    /\ C12_CallsReturn
    /\ [][C12_OnlyCasLoopsRepeat /\ C12_CompletionRepeatsAfterInterference
            /\ C12_ReservationRepeatsAfterInterference]_vars

\* C12: every call returns after finitely many of its own steps, a stalled
\* producer blocks nobody, the only loops are the two CAS loops; the loop on
\* the completion counter repeats only after another producer's CAS on it,
\* the loop on the reservation cursor also when compare_exchange_weak fails
\* although the cursor holds the expected value.
C12_NoOperationBlocks ==
    /\ C12_CallsReturn
    /\ [][C12_OnlyCasLoopsRepeat /\ C12_CompletionRepeatsAfterInterference]_vars

\* producer 1 is about to repeat its reservation after producer 2 reserved,
\* and producer 2 stands between its reservation and its return
C12_Witness ==
    /\ variant = "MP"
    /\ prod[1].pc = "m165" /\ prod[1].inPos # m_inPosL
    /\ prod[2].pc \in {"m167", "m170", "m173", "m175", "m176"}
\* the number of values the consumer has taken out: by pop, pop_n and flush
Consumed == Len(hist.popped) + hist.bulk

\* C13: CircularQueue, one producer and one consumer interleaved: every slot of
\* the unread range [m_outPos, m_inPosT) holds the value of the accepted push
\* that claimed it (the i-th unread slot the value of the i-th accepted push
\* not yet consumed).
C13_PublicationBarrierSPSC ==
    variant = "SPSC" =>
        \A i \in 0..(Avail(m_inPosT, m_outPos) - 1) :
            /\ Consumed + i + 1 <= Len(hist.accepted)
            /\ m_buffer[(m_outPos + i) % m_bufSize] = hist.accepted[Consumed + i + 1]
\* at most one producer stands between a successful frontier test (line 175)
\* and its store of m_inPosT (line 176)
C14_SinglePublisher ==
    variant = "MP" => Cardinality({p \in Producers : prod[p].pc = "m176"}) <= 1

\* every slot of the unread range [m_outPos, m_inPosT) holds the value of the
\* accepted push that reserved it, and that push has stored it
C14_UnreadSlotsWritten ==
    variant = "MP" =>
        \A i \in 0..(Avail(m_inPosT, m_outPos) - 1) :
            /\ Consumed + i + 1 <= Len(hist.accepted)
            /\ m_buffer[(m_outPos + i) % m_bufSize] = hist.accepted[Consumed + i + 1]
            /\ \A p \in Producers :
                  ~(prod[p].pc = "m167" /\ prod[p].val = hist.accepted[Consumed + i + 1])

\* C14: CAS build of CircularQueueMP: a store of m_inPosT publishes written
\* slots only, so each slot of [m_outPos, m_inPosT) holds the value of an
\* accepted push, stored and not yet consumed; and two producers are never
\* both between a successful frontier test and their store of m_inPosT.
C14_PublicationBarrierMP == C14_UnreadSlotsWritten /\ C14_SinglePublisher
\* the accepted pushes whose value the consumer has neither taken out nor can
\* see yet (available() does not count it): reserved, not yet published
Unpublished == Len(hist.accepted) - Consumed - Avail(m_inPosT, m_outPos)

\* measured from m_outPos, m_inPosL leads or equals m_inPosT
C15_ReserveLeads == variant = "MP" => Avail(m_inPosT, m_outPos) <= Avail(m_inPosL, m_outPos)

\* C15: CAS build of CircularQueueMP, every reachable state: (m_inPosT -
\* m_outPos) mod N <= (m_inPosL - m_outPos) mod N, and the difference is the
\* number of pushes that have reserved a slot not yet published.
C15_ReserveLeadsWrite ==
    variant = "MP" =>
        /\ Avail(m_inPosT, m_outPos) <= Avail(m_inPosL, m_outPos)
        /\ Avail(m_inPosL, m_outPos) - Avail(m_inPosT, m_outPos) = Unpublished
\* C16: CAS build of CircularQueueMP: whenever no push call is in progress,
\* m_inPosT = m_inPosL = m_inPosC, and available() counts every accepted value
\* not yet consumed: the value of every push that returned true is visible to
\* the consumer with no further push.
C16_EventualPublication ==
    (variant = "MP" /\ \A p \in Producers : prod[p].pc = "idle") =>
        /\ m_inPosT = m_inPosL
        /\ m_inPosL = m_inPosC
        /\ Avail(m_inPosT, m_outPos) = Len(hist.accepted) - Consumed
\* C17: all three variants, every reachable state under any interleaving:
\* m_inPosT, m_outPos, m_inPosL and m_inPosC are in 0..N-1, and available()
\* and availableForWrite() return a number in 0..C, from one snapshot of the
\* cursors and also when other threads step between the two loads.
C17_CursorsAndCountsInRange ==
    /\ m_inPosT \in 0..(m_bufSize - 1)
    /\ m_outPos \in 0..(m_bufSize - 1)
    /\ m_inPosL \in 0..(m_bufSize - 1)
    /\ m_inPosC \in 0..(m_bufSize - 1)
    /\ Available(Shared).ret[1] \in 0..Capacity
    /\ AvailableForWrite(Shared).ret[1] \in 0..Capacity
    /\ ~hist.outOfRange

\* an availableForWrite of the CAS build is about to load m_outPos, with
\* m_inPosL moved on from the value the call loaded and the cursors wrapped
C17_Witness ==
    /\ variant = "MP"
    /\ prod[1].pc = "w56out"
    /\ prod[1].inPos # m_inPosL
    /\ m_outPos > m_inPosL
\* a step of a producer: of push or of availableForWrite
ProducerStep == prod' # prod \/ nextTag' # nextTag

\* a step of the consumer: of pop, peek, pop_n, flush or available
ConsumerStep == cons' # cons

\* what one step may change
C18_Frame ==
    /\ ProducerStep => m_outPos' = m_outPos
    /\ ConsumerStep => UNCHANGED <<m_inPosT, m_inPosL, m_inPosC, m_buffer>>
    /\ (ConsumerStep /\ (cons.op \in {"peek", "available"} \/ cons'.op \in {"peek", "available"}))
          => Shared' = Shared
    /\ (\E p \in Producers : prod'[p] # prod[p]
            /\ (prod[p].pc \in {"w56in", "w56out"} \/ prod'[p].pc \in {"w56in", "w56out"}))
          => Shared' = Shared
    /\ m_outPos' # m_outPos =>
          /\ cons.pc \in {"c89", "n99", "f44"}
          /\ cons'.pc = "idle"
          /\ cons.pc = "c89" => m_outPos' = NextPos(cons.outPos)
          /\ cons.pc = "n99" => m_outPos' = (cons.outPos + cons.size) % m_bufSize

\* C18: no step of push changes m_outPos; no step of pop, peek, pop_n or flush
\* changes m_inPosT, m_inPosL, m_inPosC or a slot; no step of peek, available
\* or availableForWrite changes anything; pop and pop_n change m_outPos in
\* one step each, their last (pop_n by the whole count at once).
C18_SingleWriter == [][C18_Frame]_vars

\* a pop_n of the CAS build has copied at least two slots and is about to
\* store m_outPos, while a producer is about to store m_inPosT
C18_Witness ==
    /\ variant = "MP"
    /\ cons.pc = "n99" /\ cons.size >= 2 /\ Len(cons.out) = cons.size
    /\ \E p \in Producers : prod[p].pc = "m176"
\* C19: CAS build of CircularQueueMP: m_inPosT never moves backward: a producer
\* about to store m_inPosT (line 176) stores a position at least as far from
\* m_outPos as the one it replaces, and available() counts no slot the
\* consumer has already taken out.
C19_WriteCursorNeverBackward ==
    variant = "MP" =>
        /\ \A p \in Producers :
              prod[p].pc = "m176"
                  => Avail(prod[p].inPosC, m_outPos) >= Avail(m_inPosT, m_outPos)
        /\ Avail(m_inPosT, m_outPos) <= Len(hist.accepted) - Consumed
\* CircularQueue, cursors read in one snapshot: available() + availableForWrite() = C
C20_AccountingSPSC ==
    variant = "SPSC" => Available(Shared).ret[1] + AvailableForWrite(Shared).ret[1] = Capacity

\* CAS build: available() + availableForWrite() + the reserved, unpublished = C
C20_AccountingMP ==
    variant = "MP" =>
        Available(Shared).ret[1] + AvailableForWrite(Shared).ret[1] + Unpublished = Capacity

\* CAS build: at most C accepted values are unconsumed, and no producer is
\* about to store (line 167) into a slot of the unread range
C20_NoOverwrite ==
    variant = "MP" =>
        /\ Len(hist.accepted) - Consumed <= Capacity
        /\ \A p \in Producers :
              prod[p].pc = "m167"
                  => Avail(prod[p].inPos, m_outPos) >= Avail(m_inPosT, m_outPos)

\* C20: slot accounting is conserved: in CircularQueue available() +
\* availableForWrite() = C; in the CAS build of CircularQueueMP available() +
\* availableForWrite() + (reserved, unpublished slots) = C, the accepted
\* values not yet consumed never exceed C, and no producer stores into a slot
\* that holds an unread value.
C20_SlotAccounting == C20_AccountingSPSC /\ C20_AccountingMP /\ C20_NoOverwrite
====
